---- MODULE Spec2Model ----
(***************************************************************************)
(* Agent teams: the three file-backed stores of codex-rs/core/src/teams    *)
(* (work queue, mailboxes, membership registry) as a state machine.        *)
(*                                                                         *)
(* The persisted documents are the shared state.  Every store operation is *)
(* an async fn whose filesystem calls are awaited one after the other, so  *)
(* a call by one actor is a sequence of steps (read the document, then     *)
(* write it) between which the steps of other actors may run: the code     *)
(* takes no lock.  Each actor (process) runs one call at a time.           *)
(*                                                                         *)
(* The terminal UI keeps an in-memory TeamState (codex-rs/tui/src/         *)
(* team_events.rs) that it updates from the team events it receives.       *)
(***************************************************************************)
EXTENDS Integers, Sequences, FiniteSets, TLC

VARIABLES
    taskDir,    \* team -> BOOLEAN: tasks/{team}/ exists
    taskFile,   \* team -> tasks/{team}/tasks.json: missing, or the task sequence
    teamDir,    \* team -> BOOLEAN: teams/{team}/ and teams/{team}/inboxes/ exist
    config,     \* team -> teams/{team}/config.json: missing, or the member sequence
    inbox,      \* team -> agent -> inboxes/{agent}.json: missing, or the message sequence
    pc,         \* process -> position in its current call
    call,       \* process -> the call (operation and arguments) it runs or ran last
    snap,       \* process -> the document the call read (its local copy)
    res,        \* process -> the value the call returned
    nextId,     \* the unique-id generator: the next task id
    nextMsg,    \* the next message content (every sent message is distinguishable)
    acceptedBy, \* history: task id -> the claimants a call of accept_next_task returned it to
    sentOk,     \* history: team -> agent -> the messages whose send_message returned Ok
    consumed,   \* history: team -> agent -> the messages consume_unread returned, in order
    teamState   \* the TUI's TeamState: team_name, leader_thread_id, members, tasks

vars == <<taskDir, taskFile, teamDir, config, inbox, pc, call, snap, res,
          nextId, nextMsg, acceptedBy, sentOk, consumed, teamState>>

queueVars == <<taskDir, taskFile, nextId, acceptedBy>>
teamVars  == <<teamDir, config>>
boxVars   == <<inbox, nextMsg, sentOk, consumed>>

----------------------------------------------------------------------------
(* Bounds and input sets *)

MaxTasks == 3
MaxSeqTasks == 2
MaxRaceTasks == 2
MaxMsgs == 2
MaxMembers == 2
MaxDamaged == 1

\* the thread ids of the teammates the TUI hears about
ThreadIds == 1..MaxMembers

Teams == {"A", "B"}
Procs == {"p1", "p2", "p3"}
Agents == {"alice", "bob", "carol"}
TaskIds == 1..MaxTasks

None == "none"

\* a document on disk: missing, or present with its content (a sequence), or
\* present with text that does not parse as the document
NoFile == [exists |-> FALSE, data |-> <<>>, valid |-> TRUE]
File(d) == [exists |-> TRUE, data |-> d, valid |-> TRUE]
Garbage == [exists |-> TRUE, data |-> <<>>, valid |-> FALSE]

\* Malformed with every text accepted, read as the empty document
MalformedNever(d) == FALSE

\* serde_json::from_str fails on the document
Malformed(d) == d.exists /\ ~ d.valid

\* what a call returns
NoRes == [kind |-> "none"]                   \* nothing returned yet
Ok == [kind |-> "ok"]                        \* Ok(())
Err == [kind |-> "err"]                      \* Err(io::Error)
NotFound == [kind |-> "err", error |-> "NotFound"]  \* Err of ErrorKind::NotFound
InvalidData == [kind |-> "err", error |-> "InvalidData"]  \* Err of ErrorKind::InvalidData
NoTask == [kind |-> "notask"]                \* Ok(None)
NoTags == [kind |-> "notags"]                \* Ok(None) of consume_as_tags
Found(b) == [kind |-> "bool", val |-> b]     \* Ok(true) / Ok(false)
Got(v) == [kind |-> "value", val |-> v]      \* Ok(Some(task)), Ok(messages), Ok(config)

NoSnap == <<>>

Pending == "Pending"
InProgress == "InProgress"
Completed == "Completed"

\* the name an actor passes as claimant or sender: every actor has its own
Claimant(p) == CASE p = "p1" -> "alice" [] p = "p2" -> "bob" [] OTHER -> "carol"

\* depends_on of the tasks created: none, one id or two; an id that no task has
\* (0), ids not created yet, the task's own id and cycles are among them
DepChoices == {{}, {0}, {1}, {2}, {1, 2}}

NoCall == [op |-> None]

\* TeamState::default(): no team, no leader, no members, no tasks
TeamStateDefault ==
    [team_name |-> None, leader_thread_id |-> 0, members |-> <<>>, tasks |-> <<>>]

\* p1 is the observed caller: what its last call was, read and returned stays
\* visible after the call; the other actors keep nothing of a finished call
Traced(p) == p = "p1"

----------------------------------------------------------------------------
(* TaskList: pure parts *)

\* TaskListData::default() / the document read as a sequence of tasks
LoadTasks(t) == IF taskFile[t].exists THEN taskFile[t].data ELSE <<>>

\* ids of the tasks with status Completed
CompletedIds(tasks) ==
    {tasks[i].id : i \in {j \in DOMAIN tasks : tasks[j].status = Completed}}

\* Eligible without the dependency test
EligibleNoDeps(tasks, i) ==
    /\ tasks[i].status = Pending
    /\ tasks[i].assigned_to = None

\* Eligible without the test of the assignee
EligibleAnyAssignee(tasks, i) ==
    /\ tasks[i].status = Pending
    /\ \A dep \in tasks[i].depends_on : dep \in CompletedIds(tasks)

\* the predicate of the position() scan
Eligible(tasks, i) ==
    /\ tasks[i].status = Pending
    /\ tasks[i].assigned_to = None
    /\ \A dep \in tasks[i].depends_on : dep \in CompletedIds(tasks)

\* AcceptIdx with the scan from the end: index of the last eligible task
AcceptIdxLast(tasks) ==
    LET hits == {i \in DOMAIN tasks : Eligible(tasks, i)}
    IN  IF hits = {} THEN 0 ELSE CHOOSE i \in hits : \A j \in hits : i >= j

\* iter().position(..): index of the first eligible task, 0 when there is none
AcceptIdx(tasks) ==
    LET hits == {i \in DOMAIN tasks : Eligible(tasks, i)}
    IN  IF hits = {} THEN 0 ELSE CHOOSE i \in hits : \A j \in hits : i <= j

\* iter_mut().find(|t| t.id == task_id): index of the first task with that id, 0 if none
FindIdx(tasks, id) ==
    LET hits == {i \in DOMAIN tasks : tasks[i].id = id}
    IN  IF hits = {} THEN 0 ELSE CHOOSE i \in hits : \A j \in hits : i <= j

\* AcceptData without the assignee: only the status is set
AcceptDataStatusOnly(tasks, who) ==
    LET idx == AcceptIdx(tasks)
    IN  IF idx = 0 THEN tasks ELSE [tasks EXCEPT ![idx].status = InProgress]

\* the task list accept_next_task writes for claimant `who`
AcceptData(tasks, who) ==
    LET idx == AcceptIdx(tasks)
    IN  IF idx = 0 THEN tasks
        ELSE [tasks EXCEPT ![idx].status = InProgress, ![idx].assigned_to = who]

\* complete_task as a toggle: a task already Completed is reopened
CompleteDataToggle(tasks, id) ==
    LET idx == FindIdx(tasks, id)
    IN  IF idx = 0 THEN tasks
        ELSE [tasks EXCEPT ![idx].status = IF @ = Completed THEN InProgress ELSE Completed]

\* CompleteData that also clears the assignee of the task
CompleteDataUnassign(tasks, id) ==
    LET idx == FindIdx(tasks, id)
    IN  IF idx = 0 THEN tasks
        ELSE [tasks EXCEPT ![idx].status = Completed, ![idx].assigned_to = None]

\* the task list complete_task writes
CompleteData(tasks, id) ==
    LET idx == FindIdx(tasks, id)
    IN  IF idx = 0 THEN tasks ELSE [tasks EXCEPT ![idx].status = Completed]

\* AssignData without the test of the status: always InProgress
AssignDataForce(tasks, id, who) ==
    LET idx == FindIdx(tasks, id)
    IN  IF idx = 0 THEN tasks
        ELSE [tasks EXCEPT ![idx].assigned_to = who, ![idx].status = InProgress]

\* AssignData with the dependency test of accept_next_task: a Pending task
\* with a dependency that is not Completed stays Pending
AssignDataGated(tasks, id, who) ==
    LET idx == FindIdx(tasks, id)
    IN  IF idx = 0 THEN tasks
        ELSE [tasks EXCEPT ![idx].assigned_to = who,
                           ![idx].status =
                               IF @ = Pending /\ tasks[idx].depends_on \subseteq CompletedIds(tasks)
                                 THEN InProgress ELSE @]

\* the task list assign_task writes
AssignData(tasks, id, who) ==
    LET idx == FindIdx(tasks, id)
    IN  IF idx = 0 THEN tasks
        ELSE [tasks EXCEPT ![idx].assigned_to = who,
                           ![idx].status = IF @ = Pending THEN InProgress ELSE @]

----------------------------------------------------------------------------
(* Calls: common shape *)

Idle(p) == pc[p] \in {"idle", "done"}

\* an actor starts call c at position `at`, with local copy s of what it read
Begin(p, c, at, s) ==
    /\ Idle(p)
    /\ pc' = [pc EXCEPT ![p] = at]
    /\ call' = [call EXCEPT ![p] = c]
    /\ snap' = [snap EXCEPT ![p] = s]
    /\ res' = [res EXCEPT ![p] = NoRes]
    /\ UNCHANGED teamState

\* the call goes on to position `at` with local copy s
Goto(p, at, s) ==
    /\ pc' = [pc EXCEPT ![p] = at]
    /\ snap' = [snap EXCEPT ![p] = s]
    /\ UNCHANGED <<call, res, teamState>>

\* the call returns r
Return(p, r) ==
    /\ pc' = [pc EXCEPT ![p] = "done"]
    /\ UNCHANGED teamState
    /\ IF Traced(p)
         THEN res' = [res EXCEPT ![p] = r] /\ UNCHANGED <<call, snap>>
         ELSE /\ res' = [res EXCEPT ![p] = NoRes]
              /\ call' = [call EXCEPT ![p] = NoCall]
              /\ snap' = [snap EXCEPT ![p] = NoSnap]

\* a call of one step: begins and returns r
Once(p, c, r) ==
    /\ Idle(p)
    /\ UNCHANGED teamState
    /\ pc' = [pc EXCEPT ![p] = "done"]
    /\ snap' = [snap EXCEPT ![p] = NoSnap]
    /\ IF Traced(p)
         THEN res' = [res EXCEPT ![p] = r] /\ call' = [call EXCEPT ![p] = c]
         ELSE res' = [res EXCEPT ![p] = NoRes] /\ call' = [call EXCEPT ![p] = NoCall]

----------------------------------------------------------------------------
(* TaskList: operations *)

\* the load a queue operation starts with: an error when tasks.json does not
\* parse, else the call goes on with the tasks read
QueueLoad(p, c) ==
    IF Malformed(taskFile[c.team])
      THEN Once(p, c, InvalidData)
      ELSE Begin(p, c, "loaded", LoadTasks(c.team))

\* TaskList::save: fs::write fails when the team's directory is gone
SaveTasks(t, data) ==
    /\ taskDir[t]
    /\ taskFile' = [taskFile EXCEPT ![t] = File(data)]

\* init: create_dir_all
InitMkdir(p, t) ==
    /\ Begin(p, [op |-> "init", team |-> t], "mkdir", NoSnap)
    /\ taskDir' = [taskDir EXCEPT ![t] = TRUE]
    /\ UNCHANGED <<taskFile, nextId, acceptedBy, teamVars, boxVars>>

\* init: save(TaskListData::default())
InitSave(p) ==
    /\ pc[p] = "mkdir" /\ call[p].op = "init"
    /\ LET t == call[p].team IN
         IF taskDir[t]
           THEN SaveTasks(t, <<>>) /\ Return(p, Ok)
           ELSE Return(p, Err) /\ UNCHANGED taskFile
    /\ UNCHANGED <<taskDir, nextId, acceptedBy, teamVars, boxVars>>

\* create_task: load
CreateTaskLoad(p, t, who, deps) ==
    /\ nextId <= MaxTasks
    /\ QueueLoad(p, [op |-> "create_task", team |-> t,
                     task |-> [id |-> nextId, status |-> Pending,
                               assigned_to |-> who, depends_on |-> deps]])
    /\ nextId' = nextId + 1
    /\ UNCHANGED <<taskDir, taskFile, acceptedBy, teamVars, boxVars>>

\* create_task: push and save
CreateTaskSave(p) ==
    /\ pc[p] = "loaded" /\ call[p].op = "create_task"
    /\ LET t == call[p].team IN
         IF taskDir[t]
           THEN SaveTasks(t, Append(snap[p], call[p].task)) /\ Return(p, Ok)
           ELSE Return(p, Err) /\ UNCHANGED taskFile
    /\ UNCHANGED <<taskDir, nextId, acceptedBy, teamVars, boxVars>>

\* accept_next_task: load
AcceptLoad(p, t) ==
    /\ QueueLoad(p, [op |-> "accept_next_task", team |-> t, who |-> Claimant(p)])
    /\ UNCHANGED <<queueVars, teamVars, boxVars>>

\* accept_next_task: select, mark, save and return the task (or None)
AcceptSave(p) ==
    /\ pc[p] = "loaded" /\ call[p].op = "accept_next_task"
    /\ LET t == call[p].team
           idx == AcceptIdx(snap[p])
           data == AcceptData(snap[p], call[p].who)
       IN  IF idx = 0
             THEN Return(p, NoTask) /\ UNCHANGED <<taskFile, acceptedBy>>
             ELSE IF taskDir[t]
               THEN /\ SaveTasks(t, data)
                    /\ Return(p, Got(data[idx]))
                    /\ acceptedBy' = [acceptedBy EXCEPT ![data[idx].id] = @ \cup {call[p].who}]
               ELSE Return(p, Err) /\ UNCHANGED <<taskFile, acceptedBy>>
    /\ UNCHANGED <<taskDir, nextId, teamVars, boxVars>>

\* complete_task: load
CompleteLoad(p, t, id) ==
    /\ QueueLoad(p, [op |-> "complete_task", team |-> t, id |-> id])
    /\ UNCHANGED <<queueVars, teamVars, boxVars>>

\* complete_task: find, mark Completed, save
CompleteSave(p) ==
    /\ pc[p] = "loaded" /\ call[p].op = "complete_task"
    /\ LET t == call[p].team IN
         IF FindIdx(snap[p], call[p].id) = 0
           THEN Return(p, Found(FALSE)) /\ UNCHANGED taskFile
           ELSE IF taskDir[t]
             THEN SaveTasks(t, CompleteData(snap[p], call[p].id)) /\ Return(p, Found(TRUE))
             ELSE Return(p, Err) /\ UNCHANGED taskFile
    /\ UNCHANGED <<taskDir, nextId, acceptedBy, teamVars, boxVars>>

\* assign_task: load
AssignLoad(p, t, id, who) ==
    /\ QueueLoad(p, [op |-> "assign_task", team |-> t, id |-> id, who |-> who])
    /\ UNCHANGED <<queueVars, teamVars, boxVars>>

\* assign_task: find, set the assignee, Pending -> InProgress, save
AssignSave(p) ==
    /\ pc[p] = "loaded" /\ call[p].op = "assign_task"
    /\ LET t == call[p].team IN
         IF FindIdx(snap[p], call[p].id) = 0
           THEN Return(p, Found(FALSE)) /\ UNCHANGED taskFile
           ELSE IF taskDir[t]
             THEN SaveTasks(t, AssignData(snap[p], call[p].id, call[p].who)) /\ Return(p, Found(TRUE))
             ELSE Return(p, Err) /\ UNCHANGED taskFile
    /\ UNCHANGED <<taskDir, nextId, acceptedBy, teamVars, boxVars>>

\* get_all_tasks: load and return the tasks
GetAllTasks(p, t) ==
    /\ Once(p, [op |-> "get_all_tasks", team |-> t],
            IF Malformed(taskFile[t]) THEN InvalidData ELSE Got(LoadTasks(t)))
    /\ UNCHANGED <<queueVars, teamVars, boxVars>>

\* TaskList::cleanup: remove_dir_all of the team's task directory
QueueCleanup(p, t) ==
    /\ Once(p, [op |-> "cleanup", team |-> t], Ok)
    /\ taskDir' = [taskDir EXCEPT ![t] = FALSE]
    /\ taskFile' = [taskFile EXCEPT ![t] = NoFile]
    /\ UNCHANGED <<nextId, acceptedBy, teamVars, boxVars>>

----------------------------------------------------------------------------
(* Inbox: pure parts *)

\* the InboxMessage a sender builds: unread; the content n is the n-th message
\* written in the run and the clock reading n its timestamp
Msg(from, n) == [from |-> from, timestamp |-> n, content |-> n, read |-> FALSE]

\* read_inbox: the log, empty when the file does not exist
ReadInbox(t, a) == IF inbox[t][a].exists THEN inbox[t][a].data ELSE <<>>

\* Unread without the filter: the whole log
UnreadAll(msgs) == msgs

\* the messages with read = false, in log order
RECURSIVE Unread(_)
Unread(msgs) ==
    IF msgs = <<>> THEN <<>>
    ELSE IF ~ Head(msgs).read THEN <<Head(msgs)>> \o Unread(Tail(msgs))
         ELSE Unread(Tail(msgs))

\* MarkAllRead that flags nothing
MarkNoneRead(msgs) == msgs

\* every message flagged read
MarkAllRead(msgs) == [i \in DOMAIN msgs |-> [msgs[i] EXCEPT !.read = TRUE]]

\* format!("<teammate-message from=\"{}\">\n{}\n</teammate-message>", m.from,
\* m.content): the block of one message; timestamp and read flag are not in it
Tag(m) == [tag |-> "teammate-message", from |-> m.from, content |-> m.content]

\* RenderTags with the blocks newest first
RenderTagsReversed(msgs) == [k \in DOMAIN msgs |-> Tag(msgs[Len(msgs) + 1 - k])]

\* tags.join("\n\n"): the text as the sequence of its blocks, in the order of
\* the messages
RenderTags(msgs) == [k \in DOMAIN msgs |-> Tag(msgs[k])]

\* list_agents: the agents with an inbox file
ListAgents(t) == {a \in Agents : inbox[t][a].exists}

\* Recipients without the exclude_self test
RecipientsAll(agents, from, exclude_self) == agents

\* the agents broadcast sends to
Recipients(agents, from, exclude_self) ==
    {a \in agents : ~ (exclude_self /\ a = from)}

\* WriteInbox with one file for all the agents of the team
WriteInboxShared(t, a, msgs) ==
    /\ teamDir[t]
    /\ inbox' = [inbox EXCEPT ![t] = [b \in Agents |-> File(msgs)]]

\* the read_inbox a mailbox operation starts with: an error when the log does
\* not parse, else the call goes on with the messages read
InboxLoad(p, c, a) ==
    IF Malformed(inbox[c.team][a])
      THEN Once(p, c, InvalidData)
      ELSE Begin(p, c, "loaded", ReadInbox(c.team, a))

\* write_inbox: fs::write fails when the inboxes directory is gone
WriteInbox(t, a, msgs) ==
    /\ teamDir[t]
    /\ inbox' = [inbox EXCEPT ![t][a] = File(msgs)]

----------------------------------------------------------------------------
(* Inbox: operations *)

\* Inbox::init: create_dir_all of the inboxes directory
InboxInit(p, t) ==
    /\ Once(p, [op |-> "inbox_init", team |-> t], Ok)
    /\ teamDir' = [teamDir EXCEPT ![t] = TRUE]
    /\ UNCHANGED <<config, queueVars, boxVars>>

\* create_inbox: the path.exists() test
CreateInboxCheck(p, t, a) ==
    /\ IF inbox[t][a].exists
         THEN Once(p, [op |-> "create_inbox", team |-> t, agent |-> a], Ok)
         ELSE Begin(p, [op |-> "create_inbox", team |-> t, agent |-> a], "write", NoSnap)
    /\ UNCHANGED <<teamVars, queueVars, boxVars>>

\* create_inbox: fs::write(path, "[]")
CreateInboxWrite(p) ==
    /\ pc[p] = "write" /\ call[p].op = "create_inbox"
    /\ LET t == call[p].team IN
         IF teamDir[t]
           THEN WriteInbox(t, call[p].agent, <<>>) /\ Return(p, Ok)
           ELSE Return(p, Err) /\ UNCHANGED inbox
    /\ UNCHANGED <<teamVars, queueVars, nextMsg, sentOk, consumed>>

\* send_message: read_inbox
SendRead(p, t, to) ==
    /\ nextMsg <= MaxMsgs
    /\ InboxLoad(p, [op |-> "send_message", team |-> t, to |-> to,
                     message |-> Msg(Claimant(p), nextMsg)], to)
    /\ nextMsg' = nextMsg + 1
    /\ UNCHANGED <<teamVars, queueVars, inbox, sentOk, consumed>>

\* send_message: push and write_inbox
SendWrite(p) ==
    /\ pc[p] = "loaded" /\ call[p].op = "send_message"
    /\ LET t == call[p].team
           to == call[p].to
       IN  IF teamDir[t]
             THEN /\ WriteInbox(t, to, Append(snap[p], call[p].message))
                  /\ sentOk' = [sentOk EXCEPT ![t][to] = @ \cup {call[p].message}]
                  /\ Return(p, Ok)
             ELSE Return(p, Err) /\ UNCHANGED <<inbox, sentOk>>
    /\ UNCHANGED <<teamVars, queueVars, nextMsg, consumed>>

\* read_inbox
ReadInboxCall(p, t, a) ==
    /\ Once(p, [op |-> "read_inbox", team |-> t, agent |-> a],
            IF Malformed(inbox[t][a]) THEN InvalidData ELSE Got(ReadInbox(t, a)))
    /\ UNCHANGED <<teamVars, queueVars, boxVars>>

\* consume_unread: read_inbox
ConsumeRead(p, t, a) ==
    /\ InboxLoad(p, [op |-> "consume_unread", team |-> t, agent |-> a], a)
    /\ UNCHANGED <<teamVars, queueVars, boxVars>>

\* ConsumeWrite without the is_empty test: the log is written on every call
ConsumeWriteAlways(p) ==
    /\ pc[p] = "loaded" /\ call[p].op = "consume_unread"
    /\ LET t == call[p].team
           a == call[p].agent
           unread == Unread(snap[p])
       IN  IF teamDir[t]
             THEN /\ WriteInbox(t, a, MarkAllRead(snap[p]))
                  /\ consumed' = [consumed EXCEPT ![t][a] = @ \o unread]
                  /\ Return(p, Got(unread))
             ELSE Return(p, Err) /\ UNCHANGED <<inbox, consumed>>
    /\ UNCHANGED <<teamVars, queueVars, nextMsg, sentOk>>

\* consume_unread: collect the unread, flag all read and write when any is unread
ConsumeWrite(p) ==
    /\ pc[p] = "loaded" /\ call[p].op = "consume_unread"
    /\ LET t == call[p].team
           a == call[p].agent
           unread == Unread(snap[p])
       IN  IF unread = <<>>
             THEN Return(p, Got(unread)) /\ UNCHANGED <<inbox, consumed>>
             ELSE IF teamDir[t]
               THEN /\ WriteInbox(t, a, MarkAllRead(snap[p]))
                    /\ consumed' = [consumed EXCEPT ![t][a] = @ \o unread]
                    /\ Return(p, Got(unread))
               ELSE Return(p, Err) /\ UNCHANGED <<inbox, consumed>>
    /\ UNCHANGED <<teamVars, queueVars, nextMsg, sentOk>>

\* consume_as_tags: the read_inbox of its consume_unread
ConsumeTagsRead(p, t, a) ==
    /\ InboxLoad(p, [op |-> "consume_as_tags", team |-> t, agent |-> a], a)
    /\ UNCHANGED <<teamVars, queueVars, boxVars>>

\* consume_as_tags: the rest of its consume_unread, then None when nothing was
\* unread and the rendered text otherwise
ConsumeTagsWrite(p) ==
    /\ pc[p] = "loaded" /\ call[p].op = "consume_as_tags"
    /\ LET t == call[p].team
           a == call[p].agent
           unread == Unread(snap[p])
       IN  IF unread = <<>>
             THEN Return(p, NoTags) /\ UNCHANGED <<inbox, consumed>>
             ELSE IF teamDir[t]
               THEN /\ WriteInbox(t, a, MarkAllRead(snap[p]))
                    /\ consumed' = [consumed EXCEPT ![t][a] = @ \o unread]
                    /\ Return(p, Got(RenderTags(unread)))
               ELSE Return(p, Err) /\ UNCHANGED <<inbox, consumed>>
    /\ UNCHANGED <<teamVars, queueVars, nextMsg, sentOk>>

\* broadcast: list_agents and the timestamp; `todo` are the recipients still to
\* be sent to and `pre` the mailboxes as the call found them
BroadcastList(p, t, from, exclude_self) ==
    /\ nextMsg <= MaxMsgs
    /\ LET c == [op |-> "broadcast", team |-> t, from |-> from,
                 exclude_self |-> exclude_self, message |-> Msg(from, nextMsg),
                 todo |-> Recipients(ListAgents(t), from, exclude_self),
                 to |-> None, pre |-> inbox[t]]
       IN  IF ~ teamDir[t] THEN Once(p, c, Err)
           ELSE IF c.todo = {} THEN Once(p, c, Ok)
           ELSE Begin(p, c, "next", NoSnap)
    /\ nextMsg' = nextMsg + 1
    /\ UNCHANGED <<teamVars, queueVars, inbox, sentOk, consumed>>

\* broadcast: send_message to the next agent of the listing: read_inbox; an
\* error, which the ? returns, ends the loop
BroadcastRead(p) ==
    /\ pc[p] = "next" /\ call[p].op = "broadcast"
    /\ \E a \in call[p].todo :
         IF Malformed(inbox[call[p].team][a])
           THEN /\ pc' = [pc EXCEPT ![p] = "done"]
                /\ snap' = [snap EXCEPT ![p] = NoSnap]
                /\ IF Traced(p)
                     THEN /\ call' = [call EXCEPT ![p].to = a, ![p].todo = @ \ {a}]
                          /\ res' = [res EXCEPT ![p] = InvalidData]
                     ELSE /\ call' = [call EXCEPT ![p] = NoCall]
                          /\ res' = [res EXCEPT ![p] = NoRes]
           ELSE /\ call' = [call EXCEPT ![p].to = a, ![p].todo = @ \ {a}]
                /\ snap' = [snap EXCEPT ![p] = ReadInbox(call[p].team, a)]
                /\ pc' = [pc EXCEPT ![p] = "send"]
                /\ res' = res
    /\ UNCHANGED <<teamVars, queueVars, boxVars, teamState>>

\* broadcast: send_message to that agent: push and write_inbox; an error ends
\* the loop
BroadcastWrite(p) ==
    /\ pc[p] = "send" /\ call[p].op = "broadcast"
    /\ LET t == call[p].team
           to == call[p].to
       IN  IF teamDir[t]
             THEN /\ WriteInbox(t, to, Append(snap[p], call[p].message))
                  /\ sentOk' = [sentOk EXCEPT ![t][to] = @ \cup {call[p].message}]
                  /\ IF call[p].todo = {}
                       THEN Return(p, Ok)
                       ELSE Goto(p, "next", NoSnap)
             ELSE Return(p, Err) /\ UNCHANGED <<inbox, sentOk>>
    /\ UNCHANGED <<teamVars, queueVars, nextMsg, consumed>>

----------------------------------------------------------------------------
(* TeamManager *)

\* the MemberConfig the facade persists for a spawned teammate
Member(name) == [name |-> name, status |-> "running"]

\* team_exists: config.json is on disk
team_exists(t) == config[t].exists

\* Retain that drops only the first member of that name
RECURSIVE RetainFirst(_, _)
RetainFirst(members, name) ==
    IF members = <<>> THEN <<>>
    ELSE IF Head(members).name # name
           THEN <<Head(members)>> \o RetainFirst(Tail(members), name)
           ELSE Tail(members)

\* members.retain(|m| m.name != member_name)
RECURSIVE Retain(_, _)
Retain(members, name) ==
    IF members = <<>> THEN <<>>
    ELSE IF Head(members).name # name
           THEN <<Head(members)>> \o Retain(Tail(members), name)
           ELSE Retain(Tail(members), name)

\* SetStatus on every member of that name
SetStatusAll(members, name, status) ==
    [i \in DOMAIN members |->
        IF members[i].name = name THEN [members[i] EXCEPT !.status = status]
        ELSE members[i]]

\* iter_mut().find(|m| m.name == member_name): the first member of that name
\* gets the status
SetStatus(members, name, status) ==
    LET hits == {i \in DOMAIN members : members[i].name = name}
    IN  IF hits = {} THEN members
        ELSE LET idx == CHOOSE i \in hits : \A j \in hits : i <= j
             IN  [members EXCEPT ![idx].status = status]

\* save_config and create_team's write: fs::write fails when the team directory is gone
SaveConfig(t, members) ==
    /\ teamDir[t]
    /\ config' = [config EXCEPT ![t] = File(members)]

\* create_team: create_dir_all of the team directory and of its inboxes directory
CreateTeamMkdir(p, t) ==
    /\ Begin(p, [op |-> "create_team", team |-> t], "write", NoSnap)
    /\ teamDir' = [teamDir EXCEPT ![t] = TRUE]
    /\ UNCHANGED <<config, queueVars, boxVars>>

\* create_team: write the config with members = [] and return it
CreateTeamWrite(p) ==
    /\ pc[p] = "write" /\ call[p].op = "create_team"
    /\ LET t == call[p].team IN
         IF teamDir[t]
           THEN SaveConfig(t, <<>>) /\ Return(p, Got(<<>>))
           ELSE Return(p, Err) /\ UNCHANGED config
    /\ UNCHANGED <<teamDir, queueVars, boxVars>>

\* ConfigLoad with a missing config.json read as a config without members
ConfigLoadLenient(p, c, at) == Begin(p, c, at, config[c.team].data)

\* the load_config a membership update starts with: fs::read_to_string fails
\* with NotFound when config.json is missing, serde_json::from_str with
\* InvalidData when it does not parse
ConfigLoad(p, c, at) ==
    IF ~ config[c.team].exists THEN Once(p, c, NotFound)
    ELSE IF Malformed(config[c.team]) THEN Once(p, c, InvalidData)
    ELSE Begin(p, c, at, config[c.team].data)

\* add_member: load_config
AddMemberLoad(p, t, name) ==
    /\ Len(config[t].data) < MaxMembers
    /\ ConfigLoad(p, [op |-> "add_member", team |-> t, member |-> Member(name)], "check")
    /\ UNCHANGED <<teamVars, queueVars, boxVars>>

\* add_member: the inbox_path.exists() test
AddMemberCheck(p) ==
    /\ pc[p] = "check" /\ call[p].op = "add_member"
    /\ IF inbox[call[p].team][call[p].member.name].exists
         THEN Goto(p, "save", snap[p])
         ELSE Goto(p, "inbox", snap[p])
    /\ UNCHANGED <<teamVars, queueVars, boxVars>>

\* add_member: fs::write(inbox_path, "[]")
AddMemberInbox(p) ==
    /\ pc[p] = "inbox" /\ call[p].op = "add_member"
    /\ LET t == call[p].team IN
         IF teamDir[t]
           THEN WriteInbox(t, call[p].member.name, <<>>) /\ Goto(p, "save", snap[p])
           ELSE Return(p, Err) /\ UNCHANGED inbox
    /\ UNCHANGED <<teamVars, queueVars, nextMsg, sentOk, consumed>>

\* add_member: push and save_config
AddMemberSave(p) ==
    /\ pc[p] = "save" /\ call[p].op = "add_member"
    /\ LET t == call[p].team IN
         IF teamDir[t]
           THEN SaveConfig(t, Append(snap[p], call[p].member)) /\ Return(p, Ok)
           ELSE Return(p, Err) /\ UNCHANGED config
    /\ UNCHANGED <<teamDir, queueVars, boxVars>>

\* remove_member: load_config
RemoveMemberLoad(p, t, name) ==
    /\ ConfigLoad(p, [op |-> "remove_member", team |-> t, name |-> name], "loaded")
    /\ UNCHANGED <<teamVars, queueVars, boxVars>>

\* remove_member: retain and save_config
RemoveMemberSave(p) ==
    /\ pc[p] = "loaded" /\ call[p].op = "remove_member"
    /\ LET t == call[p].team IN
         IF teamDir[t]
           THEN SaveConfig(t, Retain(snap[p], call[p].name)) /\ Return(p, Ok)
           ELSE Return(p, Err) /\ UNCHANGED config
    /\ UNCHANGED <<teamDir, queueVars, boxVars>>

\* update_member_status: load_config
UpdateStatusLoad(p, t, name, status) ==
    /\ ConfigLoad(p, [op |-> "update_member_status", team |-> t, name |-> name,
                      status |-> status], "loaded")
    /\ UNCHANGED <<teamVars, queueVars, boxVars>>

\* update_member_status: find, set the status, save_config
UpdateStatusSave(p) ==
    /\ pc[p] = "loaded" /\ call[p].op = "update_member_status"
    /\ LET t == call[p].team IN
         IF teamDir[t]
           THEN SaveConfig(t, SetStatus(snap[p], call[p].name, call[p].status)) /\ Return(p, Ok)
           ELSE Return(p, Err) /\ UNCHANGED config
    /\ UNCHANGED <<teamDir, queueVars, boxVars>>

\* cleanup_team with only config.json removed
CleanupTeamConfigOnly(p, t) ==
    /\ Once(p, [op |-> "cleanup_team", team |-> t], Ok)
    /\ config' = [config EXCEPT ![t] = NoFile]
    /\ UNCHANGED <<teamDir, queueVars, boxVars>>

\* cleanup_team: remove_dir_all of the team directory (config.json and inboxes/)
CleanupTeam(p, t) ==
    /\ Once(p, [op |-> "cleanup_team", team |-> t], Ok)
    /\ teamDir' = [teamDir EXCEPT ![t] = FALSE]
    /\ config' = [config EXCEPT ![t] = NoFile]
    /\ inbox' = [inbox EXCEPT ![t] = [a \in Agents |-> NoFile]]
    /\ UNCHANGED <<queueVars, nextMsg, sentOk, consumed>>

\* team_exists
TeamExists(p, t) ==
    /\ Once(p, [op |-> "team_exists", team |-> t], Found(team_exists(t)))
    /\ UNCHANGED <<teamVars, queueVars, boxVars>>

----------------------------------------------------------------------------
(* Tool facade: the assign_task verb *)

\* handle_assign_task: the create_dir_all of tl.init; `pre` is the queue as
\* the call found it
HandleAssignMkdir(p, t, who, deps) ==
    /\ nextId <= MaxTasks
    /\ Begin(p, [op |-> "handle_assign_task", team |-> t,
                 task |-> [id |-> nextId, status |-> Pending,
                           assigned_to |-> who, depends_on |-> deps],
                 pre |-> LoadTasks(t)], "h_init", NoSnap)
    /\ taskDir' = [taskDir EXCEPT ![t] = TRUE]
    /\ nextId' = nextId + 1
    /\ UNCHANGED <<taskFile, acceptedBy, teamVars, boxVars>>

\* handle_assign_task: the save of tl.init, an empty task list; let _ drops
\* its result
HandleAssignInit(p) ==
    /\ pc[p] = "h_init" /\ call[p].op = "handle_assign_task"
    /\ LET t == call[p].team IN
         IF taskDir[t] THEN SaveTasks(t, <<>>) ELSE UNCHANGED taskFile
    /\ Goto(p, "h_load", NoSnap)
    /\ UNCHANGED <<taskDir, nextId, acceptedBy, teamVars, boxVars>>

\* handle_assign_task: the load of tl.create_task
HandleAssignLoad(p) ==
    /\ pc[p] = "h_load" /\ call[p].op = "handle_assign_task"
    /\ IF Malformed(taskFile[call[p].team])
         THEN Return(p, InvalidData)
         ELSE Goto(p, "h_save", LoadTasks(call[p].team))
    /\ UNCHANGED <<queueVars, teamVars, boxVars>>

\* handle_assign_task: push and save of tl.create_task; Err ends the call,
\* Ok goes on to assign_task when the task has an assignee
HandleAssignCreate(p) ==
    /\ pc[p] = "h_save" /\ call[p].op = "handle_assign_task"
    /\ LET t == call[p].team IN
         IF taskDir[t]
           THEN /\ SaveTasks(t, Append(snap[p], call[p].task))
                /\ IF call[p].task.assigned_to = None
                     THEN Return(p, Ok)
                     ELSE Goto(p, "h_assign", NoSnap)
           ELSE Return(p, Err) /\ UNCHANGED taskFile
    /\ UNCHANGED <<taskDir, nextId, acceptedBy, teamVars, boxVars>>

\* handle_assign_task: the load of tl.assign_task; let _ drops its result
HandleAssignFind(p) ==
    /\ pc[p] = "h_assign" /\ call[p].op = "handle_assign_task"
    /\ IF Malformed(taskFile[call[p].team])
         THEN Return(p, Ok)
         ELSE Goto(p, "h_assigned", LoadTasks(call[p].team))
    /\ UNCHANGED <<queueVars, teamVars, boxVars>>

\* handle_assign_task: find, set and save of tl.assign_task, then "created"
HandleAssignSave(p) ==
    /\ pc[p] = "h_assigned" /\ call[p].op = "handle_assign_task"
    /\ LET t == call[p].team
           id == call[p].task.id
       IN  IF FindIdx(snap[p], id) # 0 /\ taskDir[t]
             THEN SaveTasks(t, AssignData(snap[p], id, call[p].task.assigned_to))
             ELSE UNCHANGED taskFile
    /\ Return(p, Ok)
    /\ UNCHANGED <<taskDir, nextId, acceptedBy, teamVars, boxVars>>

----------------------------------------------------------------------------
(* A claimant: accept_next_task, then complete_task on the task received *)

\* accept_next_task of a claimant: load
WorkerAcceptLoad(p, t) ==
    /\ QueueLoad(p, [op |-> "worker", team |-> t, who |-> Claimant(p), id |-> 0])
    /\ UNCHANGED <<queueVars, teamVars, boxVars>>

\* accept_next_task of a claimant: select, mark, save; with a task the
\* claimant goes on to complete it, with None the round is over
WorkerAcceptSave(p) ==
    /\ pc[p] = "loaded" /\ call[p].op = "worker"
    /\ LET t == call[p].team
           idx == AcceptIdx(snap[p])
           data == AcceptData(snap[p], call[p].who)
       IN  IF idx = 0
             THEN Return(p, NoTask) /\ UNCHANGED <<taskFile, acceptedBy>>
             ELSE IF taskDir[t]
               THEN /\ SaveTasks(t, data)
                    /\ acceptedBy' = [acceptedBy EXCEPT ![data[idx].id] = @ \cup {call[p].who}]
                    /\ pc' = [pc EXCEPT ![p] = "received"]
                    /\ call' = [call EXCEPT ![p].id = data[idx].id]
                    /\ snap' = [snap EXCEPT ![p] = NoSnap]
                    /\ UNCHANGED <<res, teamState>>
               ELSE Return(p, Err) /\ UNCHANGED <<taskFile, acceptedBy>>
    /\ UNCHANGED <<taskDir, nextId, teamVars, boxVars>>

\* complete_task on the task received: load
WorkerCompleteLoad(p) ==
    /\ pc[p] = "received" /\ call[p].op = "worker"
    /\ IF Malformed(taskFile[call[p].team])
         THEN Return(p, InvalidData)
         ELSE Goto(p, "completing", LoadTasks(call[p].team))
    /\ UNCHANGED <<queueVars, teamVars, boxVars>>

\* complete_task on the task received: find, mark Completed, save
WorkerCompleteSave(p) ==
    /\ pc[p] = "completing" /\ call[p].op = "worker"
    /\ LET t == call[p].team IN
         IF FindIdx(snap[p], call[p].id) = 0
           THEN Return(p, Found(FALSE)) /\ UNCHANGED taskFile
           ELSE IF taskDir[t]
             THEN SaveTasks(t, CompleteData(snap[p], call[p].id)) /\ Return(p, Found(TRUE))
             ELSE Return(p, Err) /\ UNCHANGED taskFile
    /\ UNCHANGED <<taskDir, nextId, acceptedBy, teamVars, boxVars>>

----------------------------------------------------------------------------
(* TUI: TeamState *)

\* on_member_added that always pushes
MemberAddedPush(members, m) == Append(members, m)

\* on_member_added: the first entry with the event's thread id is replaced,
\* without one the member is pushed
MemberAdded(members, m) ==
    LET hits == {i \in DOMAIN members : members[i].thread_id = m.thread_id}
    IN  IF hits = {} THEN Append(members, m)
        ELSE LET idx == CHOOSE i \in hits : \A j \in hits : i <= j
             IN  [members EXCEPT ![idx] = m]

\* members.retain(|m| m.thread_id != ev.member.thread_id)
RECURSIVE MemberRemoved(_, _)
MemberRemoved(members, id) ==
    IF members = <<>> THEN <<>>
    ELSE IF Head(members).thread_id # id
           THEN <<Head(members)>> \o MemberRemoved(Tail(members), id)
           ELSE MemberRemoved(Tail(members), id)

\* on_task_updated: the first task with the event's id is replaced, without
\* one nothing changes
TaskUpdated(tasks, task) ==
    LET idx == FindIdx(tasks, task.id)
    IN  IF idx = 0 THEN tasks ELSE [tasks EXCEPT ![idx] = task]

\* is_active: a team name is set
is_active == teamState.team_name # None

\* teammate_thread_ids: the thread ids of the members, in list order
teammate_thread_ids == [i \in DOMAIN teamState.members |-> teamState.members[i].thread_id]

\* the event loop, p1, has handled event c: the handlers take &mut self and
\* await nothing, so each is one step
Handled(c) ==
    /\ Idle("p1")
    /\ pc' = [pc EXCEPT !["p1"] = "done"]
    /\ call' = [call EXCEPT !["p1"] = c]
    /\ snap' = [snap EXCEPT !["p1"] = NoSnap]
    /\ res' = [res EXCEPT !["p1"] = Ok]
    /\ UNCHANGED <<queueVars, teamVars, boxVars>>

on_team_created(name, leader) ==
    /\ Handled([op |-> "on_team_created", team |-> name])
    /\ teamState' = [teamState EXCEPT !.team_name = name, !.leader_thread_id = leader]

on_member_added(m) ==
    /\ Len(teamState.members) <= MaxMembers
    /\ Handled([op |-> "on_member_added", member |-> m])
    /\ teamState' = [teamState EXCEPT !.members = MemberAdded(@, m)]

on_member_removed(m) ==
    /\ Handled([op |-> "on_member_removed", member |-> m])
    /\ teamState' = [teamState EXCEPT !.members = MemberRemoved(@, m.thread_id)]

on_task_created(task) ==
    /\ Len(teamState.tasks) < MaxSeqTasks
    /\ Handled([op |-> "on_task_created", task |-> task])
    /\ teamState' = [teamState EXCEPT !.tasks = Append(@, task)]

on_task_updated(task) ==
    /\ Handled([op |-> "on_task_updated", task |-> task])
    /\ teamState' = [teamState EXCEPT !.tasks = TaskUpdated(@, task)]

on_cleanup ==
    /\ Handled([op |-> "on_cleanup"])
    /\ teamState' = [teamState EXCEPT !.team_name = None, !.leader_thread_id = 0,
                                      !.members = <<>>, !.tasks = <<>>]

----------------------------------------------------------------------------
(* Documents that do not parse *)

\* an existing tasks.json is left with text that is not a task list (a write
\* cut short, an edit from outside)
DamageTasks(t) ==
    /\ taskFile[t].exists
    /\ taskFile' = [taskFile EXCEPT ![t] = Garbage]
    /\ UNCHANGED <<taskDir, nextId, acceptedBy, teamVars, boxVars, pc, call, snap, res, teamState>>

\* an existing mailbox log is left with text that is not a message list
DamageInbox(t, a) ==
    /\ inbox[t][a].exists
    /\ inbox' = [inbox EXCEPT ![t][a] = Garbage]
    /\ UNCHANGED <<queueVars, teamVars, nextMsg, sentOk, consumed, pc, call, snap, res, teamState>>

\* an existing config.json is left with text that is not a team config
DamageConfig(t) ==
    /\ config[t].exists
    /\ config' = [config EXCEPT ![t] = Garbage]
    /\ UNCHANGED <<teamDir, queueVars, boxVars, pc, call, snap, res, teamState>>

----------------------------------------------------------------------------
(* Specifications *)

Init ==
    /\ taskDir = [t \in Teams |-> FALSE]
    /\ taskFile = [t \in Teams |-> NoFile]
    /\ teamDir = [t \in Teams |-> FALSE]
    /\ config = [t \in Teams |-> NoFile]
    /\ inbox = [t \in Teams |-> [a \in Agents |-> NoFile]]
    /\ pc = [p \in Procs |-> "idle"]
    /\ call = [p \in Procs |-> NoCall]
    /\ snap = [p \in Procs |-> NoSnap]
    /\ res = [p \in Procs |-> NoRes]
    /\ nextId = 1
    /\ nextMsg = 1
    /\ acceptedBy = [i \in TaskIds |-> {}]
    /\ sentOk = [t \in Teams |-> [a \in Agents |-> {}]]
    /\ consumed = [t \in Teams |-> [a \in Agents |-> <<>>]]
    /\ teamState = TeamStateDefault

\* dependency gating in team A's queue, one call at a time: tasks with every
\* shape of depends_on are created, accepted and completed
NextDeps ==
    \/ InitMkdir("p1", "A")
    \/ InitSave("p1")
    \/ \E deps \in DepChoices : CreateTaskLoad("p1", "A", None, deps)
    \/ CreateTaskSave("p1")
    \/ AcceptLoad("p1", "A")
    \/ AcceptSave("p1")
    \/ \E id \in TaskIds : CompleteLoad("p1", "A", id)
    \/ CompleteSave("p1")
SpecDeps == Init /\ [][NextDeps]_vars

\* every operation of team A's work queue, one call at a time
NextQueueSeq ==
    \/ InitMkdir("p1", "A")
    \/ InitSave("p1")
    \/ /\ nextId <= MaxSeqTasks
       /\ \E who \in {None, "bob"}, deps \in {{}, {1}} : CreateTaskLoad("p1", "A", who, deps)
    \/ CreateTaskSave("p1")
    \/ AcceptLoad("p1", "A")
    \/ AcceptSave("p1")
    \/ \E id \in 1..MaxSeqTasks : CompleteLoad("p1", "A", id)
    \/ CompleteSave("p1")
    \/ \E id \in 1..MaxSeqTasks : AssignLoad("p1", "A", id, "carol")
    \/ AssignSave("p1")
    \/ QueueCleanup("p1", "A")
SpecQueueSeq == Init /\ [][NextQueueSeq]_vars

\* the work queue of team A under two concurrent actors
QueueStep(p) ==
    \/ InitMkdir(p, "A")
    \/ InitSave(p)
    \/ nextId <= MaxRaceTasks /\ CreateTaskLoad(p, "A", None, {})
    \/ CreateTaskSave(p)
    \/ AcceptLoad(p, "A")
    \/ AcceptSave(p)
    \/ \E id \in 1..MaxRaceTasks : CompleteLoad(p, "A", id)
    \/ CompleteSave(p)
NextQueue == \E p \in {"p2", "p3"} : QueueStep(p)
SpecQueue == Init /\ [][NextQueue]_vars

\* the mailboxes of team A, one call at a time
NextInboxSeq ==
    \/ InboxInit("p1", "A")
    \/ \E a \in Agents : CreateInboxCheck("p1", "A", a)
    \/ CreateInboxWrite("p1")
    \/ \E to \in {"bob", "carol"} : SendRead("p1", "A", to)
    \/ SendWrite("p1")
    \/ \E a \in {"bob", "carol"} : ReadInboxCall("p1", "A", a)
    \/ \E a \in {"bob", "carol"} : ConsumeRead("p1", "A", a)
    \/ ConsumeWrite("p1")
    \/ \E from \in {"alice", "bob"}, x \in BOOLEAN : BroadcastList("p1", "A", from, x)
    \/ BroadcastRead("p1")
    \/ BroadcastWrite("p1")
SpecInboxSeq == Init /\ [][NextInboxSeq]_vars

\* concurrent senders to the mailboxes of team A
SendStep(p) ==
    \/ InboxInit(p, "A")
    \/ \E to \in {"alice", "bob"} : SendRead(p, "A", to)
    \/ SendWrite(p)
NextSend == \E p \in {"p2", "p3"} : SendStep(p)
SpecSend == Init /\ [][NextSend]_vars

\* concurrent senders and consumers of the mailboxes of team A
InboxStep(p) ==
    \/ InboxInit(p, "A")
    \/ \E to \in {"alice", "bob"} : SendRead(p, "A", to)
    \/ SendWrite(p)
    \/ \E a \in {"alice", "bob"} : ConsumeRead(p, "A", a)
    \/ ConsumeWrite(p)
NextInbox == \E p \in {"p2", "p3"} : InboxStep(p)
SpecInbox == Init /\ [][NextInbox]_vars

\* the membership registry and the mailboxes of team A, one call at a time
NextTeamSeq ==
    \/ CreateTeamMkdir("p1", "A")
    \/ CreateTeamWrite("p1")
    \/ \E name \in {"bob", "carol"} : AddMemberLoad("p1", "A", name)
    \/ AddMemberCheck("p1")
    \/ AddMemberInbox("p1")
    \/ AddMemberSave("p1")
    \/ \E name \in {"bob", "carol"} : RemoveMemberLoad("p1", "A", name)
    \/ RemoveMemberSave("p1")
    \/ \E name \in {"bob", "carol"} : UpdateStatusLoad("p1", "A", name, "idle")
    \/ UpdateStatusSave("p1")
    \/ CleanupTeam("p1", "A")
    \/ TeamExists("p1", "A")
    \/ \E to \in {"bob", "carol"} : SendRead("p1", "A", to)
    \/ SendWrite("p1")
SpecTeamSeq == Init /\ [][NextTeamSeq]_vars

\* N Pending, unassigned tasks without dependencies in team A's queue, and
\* actors that each call accept_next_task once
InitClaim ==
    /\ \E n \in 0..MaxRaceTasks :
         /\ taskFile = [t \in Teams |->
                IF t = "A"
                  THEN File([i \in 1..n |-> [id |-> i, status |-> Pending,
                                             assigned_to |-> None, depends_on |-> {}]])
                  ELSE NoFile]
         /\ nextId = n + 1
    /\ taskDir = [t \in Teams |-> t = "A"]
    /\ teamDir = [t \in Teams |-> FALSE]
    /\ config = [t \in Teams |-> NoFile]
    /\ inbox = [t \in Teams |-> [a \in Agents |-> NoFile]]
    /\ pc = [p \in Procs |-> "idle"]
    /\ call = [p \in Procs |-> NoCall]
    /\ snap = [p \in Procs |-> NoSnap]
    /\ res = [p \in Procs |-> NoRes]
    /\ nextMsg = 1
    /\ acceptedBy = [i \in TaskIds |-> {}]
    /\ sentOk = [t \in Teams |-> [a \in Agents |-> {}]]
    /\ consumed = [t \in Teams |-> [a \in Agents |-> <<>>]]
    /\ teamState = TeamStateDefault
NextClaim ==
    \E p \in Procs :
        \/ pc[p] = "idle" /\ AcceptLoad(p, "A")
        \/ AcceptSave(p)
SpecClaim == InitClaim /\ [][NextClaim]_vars

\* the state after init("A"): team A's task directory with an empty queue document
InitQueueReady ==
    /\ taskDir = [t \in Teams |-> t = "A"]
    /\ taskFile = [t \in Teams |-> IF t = "A" THEN File(<<>>) ELSE NoFile]
    /\ teamDir = [t \in Teams |-> FALSE]
    /\ config = [t \in Teams |-> NoFile]
    /\ inbox = [t \in Teams |-> [a \in Agents |-> NoFile]]
    /\ pc = [p \in Procs |-> "idle"]
    /\ call = [p \in Procs |-> NoCall]
    /\ snap = [p \in Procs |-> NoSnap]
    /\ res = [p \in Procs |-> NoRes]
    /\ nextId = 1
    /\ nextMsg = 1
    /\ acceptedBy = [i \in TaskIds |-> {}]
    /\ sentOk = [t \in Teams |-> [a \in Agents |-> {}]]
    /\ consumed = [t \in Teams |-> [a \in Agents |-> <<>>]]
    /\ teamState = TeamStateDefault

\* the four mutating operations of team A's initialised queue under two
\* concurrent actors; neither init nor cleanup is called
QueueRaceStep(p) ==
    \/ nextId <= MaxRaceTasks /\ CreateTaskLoad(p, "A", None, {})
    \/ CreateTaskSave(p)
    \/ AcceptLoad(p, "A")
    \/ AcceptSave(p)
    \/ \E id \in 1..MaxRaceTasks : CompleteLoad(p, "A", id)
    \/ CompleteSave(p)
    \/ \E id \in 1..MaxRaceTasks : AssignLoad(p, "A", id, "alice")
    \/ AssignSave(p)
NextQueueRace == \E p \in {"p2", "p3"} : QueueRaceStep(p)
SpecQueueRace == InitQueueReady /\ [][NextQueueRace]_vars

\* the state after create_team("A"): the team's directories and a config
\* without members
InitTeamReady ==
    /\ taskDir = [t \in Teams |-> FALSE]
    /\ taskFile = [t \in Teams |-> NoFile]
    /\ teamDir = [t \in Teams |-> t = "A"]
    /\ config = [t \in Teams |-> IF t = "A" THEN File(<<>>) ELSE NoFile]
    /\ inbox = [t \in Teams |-> [a \in Agents |-> NoFile]]
    /\ pc = [p \in Procs |-> "idle"]
    /\ call = [p \in Procs |-> NoCall]
    /\ snap = [p \in Procs |-> NoSnap]
    /\ res = [p \in Procs |-> NoRes]
    /\ nextId = 1
    /\ nextMsg = 1
    /\ acceptedBy = [i \in TaskIds |-> {}]
    /\ sentOk = [t \in Teams |-> [a \in Agents |-> {}]]
    /\ consumed = [t \in Teams |-> [a \in Agents |-> <<>>]]
    /\ teamState = TeamStateDefault

\* membership updates of the existing team A by concurrent actors: one actor
\* calls add_member(bob) once, one calls add_member(carol) once, and a third
\* updates bob's status and removes the name alice, which nobody adds
NextMembers ==
    \/ pc["p1"] = "idle" /\ AddMemberLoad("p1", "A", "bob")
    \/ pc["p2"] = "idle" /\ AddMemberLoad("p2", "A", "carol")
    \/ \E p \in {"p1", "p2"} : AddMemberCheck(p) \/ AddMemberInbox(p) \/ AddMemberSave(p)
    \/ UpdateStatusLoad("p3", "A", "bob", "idle")
    \/ UpdateStatusSave("p3")
    \/ RemoveMemberLoad("p3", "A", "alice")
    \/ RemoveMemberSave("p3")
SpecMembers == InitTeamReady /\ [][NextMembers]_vars

\* the document an actor works on: the first on team A's queue and alice's
\* mailbox, the other on team B's queue and bob's mailbox
OwnTeam(p) == IF p = "p2" THEN "A" ELSE "B"
OwnBox(p) == IF p = "p2" THEN "alice" ELSE "bob"

\* two actors at work on different documents at the same time
FrameStep(p) ==
    \/ InitMkdir(p, OwnTeam(p))
    \/ InitSave(p)
    \/ nextId <= MaxRaceTasks /\ CreateTaskLoad(p, OwnTeam(p), None, {})
    \/ CreateTaskSave(p)
    \/ InboxInit(p, "A")
    \/ SendRead(p, "A", OwnBox(p))
    \/ SendWrite(p)
    \/ ConsumeRead(p, "A", OwnBox(p))
    \/ ConsumeWrite(p)
NextFrame == \E p \in {"p2", "p3"} : FrameStep(p)
SpecFrame == Init /\ [][NextFrame]_vars

\* the life of team A over both stores, one call at a time: the registry, a
\* member with its mailbox, the work queue, and the cleanup of each store
NextCleanup ==
    \/ CreateTeamMkdir("p1", "A")
    \/ CreateTeamWrite("p1")
    \/ AddMemberLoad("p1", "A", "bob")
    \/ AddMemberCheck("p1")
    \/ AddMemberInbox("p1")
    \/ AddMemberSave("p1")
    \/ SendRead("p1", "A", "bob")
    \/ SendWrite("p1")
    \/ InitMkdir("p1", "A")
    \/ InitSave("p1")
    \/ nextId <= MaxSeqTasks /\ CreateTaskLoad("p1", "A", None, {})
    \/ CreateTaskSave("p1")
    \/ GetAllTasks("p1", "A")
    \/ CleanupTeam("p1", "A")
    \/ QueueCleanup("p1", "A")
SpecCleanup == Init /\ [][NextCleanup]_vars

\* provisioning of mailboxes in the existing team A (create_inbox, and
\* add_member with its mailbox side effect) while another actor sends to them
NextProvision ==
    \/ \E a \in {"bob", "carol"} : CreateInboxCheck("p2", "A", a)
    \/ CreateInboxWrite("p2")
    \/ \E name \in {"bob", "carol"} : AddMemberLoad("p2", "A", name)
    \/ AddMemberCheck("p2")
    \/ AddMemberInbox("p2")
    \/ AddMemberSave("p2")
    \/ \E to \in {"bob", "carol"} : SendRead("p3", "A", to)
    \/ SendWrite("p3")
SpecProvision == InitTeamReady /\ [][NextProvision]_vars

\* broadcast in team A, one call at a time, where mailbox logs may have been
\* left malformed between the calls
NextBroadcastFail ==
    \/ InboxInit("p1", "A")
    \/ \E a \in Agents : CreateInboxCheck("p1", "A", a)
    \/ CreateInboxWrite("p1")
    \/ Idle("p1") /\ \E a \in {"bob", "carol"} : DamageInbox("A", a)
    \/ \E x \in BOOLEAN : BroadcastList("p1", "A", "alice", x)
    \/ BroadcastRead("p1")
    \/ BroadcastWrite("p1")
SpecBroadcastFail == Init /\ [][NextBroadcastFail]_vars

\* the three stores of team A, one call at a time, where a document may have
\* been left malformed between the calls; the documents hold up to MaxDamaged
\* tasks, members and messages
NextCorrupt ==
    \/ InitMkdir("p1", "A")
    \/ InitSave("p1")
    \/ nextId <= MaxDamaged /\ CreateTaskLoad("p1", "A", None, {})
    \/ CreateTaskSave("p1")
    \/ AcceptLoad("p1", "A")
    \/ AcceptSave("p1")
    \/ CompleteLoad("p1", "A", 1)
    \/ CompleteSave("p1")
    \/ AssignLoad("p1", "A", 1, "carol")
    \/ AssignSave("p1")
    \/ GetAllTasks("p1", "A")
    \/ CreateTeamMkdir("p1", "A")
    \/ CreateTeamWrite("p1")
    \/ Len(config["A"].data) < MaxDamaged /\ AddMemberLoad("p1", "A", "bob")
    \/ AddMemberCheck("p1")
    \/ AddMemberInbox("p1")
    \/ AddMemberSave("p1")
    \/ RemoveMemberLoad("p1", "A", "bob")
    \/ RemoveMemberSave("p1")
    \/ UpdateStatusLoad("p1", "A", "bob", "idle")
    \/ UpdateStatusSave("p1")
    \/ nextMsg <= MaxDamaged /\ SendRead("p1", "A", "bob")
    \/ SendWrite("p1")
    \/ ConsumeRead("p1", "A", "bob")
    \/ ConsumeWrite("p1")
    \/ ReadInboxCall("p1", "A", "bob")
    \/ Idle("p1") /\ DamageTasks("A")
    \/ Idle("p1") /\ DamageConfig("A")
    \/ Idle("p1") /\ DamageInbox("A", "bob")
SpecCorrupt == Init /\ [][NextCorrupt]_vars

\* the mailboxes of bob and carol in team A, one call at a time, read through
\* consume_unread and through consume_as_tags
NextTags ==
    \/ InboxInit("p1", "A")
    \/ CreateInboxCheck("p1", "A", "bob")
    \/ CreateInboxWrite("p1")
    \/ \E to \in {"bob", "carol"} : SendRead("p1", "A", to)
    \/ SendWrite("p1")
    \/ \E a \in {"bob", "carol"} : ConsumeRead("p1", "A", a)
    \/ ConsumeWrite("p1")
    \/ \E a \in {"bob", "carol"} : ConsumeTagsRead("p1", "A", a)
    \/ ConsumeTagsWrite("p1")
SpecTags == Init /\ [][NextTags]_vars

\* tasks created through the facade's assign_task verb, with and without an
\* assignee, then accepted and completed; one call at a time
NextFacade ==
    \/ /\ nextId <= MaxSeqTasks
       /\ \E who \in {None, "bob"}, deps \in {{}, {1}} :
            HandleAssignMkdir("p1", "A", who, deps)
    \/ HandleAssignInit("p1")
    \/ HandleAssignLoad("p1")
    \/ HandleAssignCreate("p1")
    \/ HandleAssignFind("p1")
    \/ HandleAssignSave("p1")
    \/ AcceptLoad("p1", "A")
    \/ AcceptSave("p1")
    \/ \E id \in 1..MaxSeqTasks : CompleteLoad("p1", "A", id)
    \/ CompleteSave("p1")
SpecFacade == Init /\ [][NextFacade]_vars

\* the facade's assign_task verb against a claimant, concurrently: p2 creates
\* tasks pre-assigned to alice through the facade, p3 creates tasks without an
\* assignee, accepts and completes; alice is no claimant here, so that a task
\* record names alice exactly when the task was created with an assignee
NextWindow ==
    \/ nextId <= MaxRaceTasks /\ HandleAssignMkdir("p2", "A", "alice", {})
    \/ HandleAssignInit("p2")
    \/ HandleAssignLoad("p2")
    \/ HandleAssignCreate("p2")
    \/ HandleAssignFind("p2")
    \/ HandleAssignSave("p2")
    \/ nextId <= MaxRaceTasks /\ CreateTaskLoad("p3", "A", None, {})
    \/ CreateTaskSave("p3")
    \/ AcceptLoad("p3", "A")
    \/ AcceptSave("p3")
    \/ \E id \in 1..MaxRaceTasks : CompleteLoad("p3", "A", id)
    \/ CompleteSave("p3")
SpecWindow == Init /\ [][NextWindow]_vars

\* a queue of one to MaxRaceTasks tasks, all Pending and unassigned, each
\* depending on nothing or on the task created just before it (so every
\* dependency exists and there is no cycle)
InitProgress ==
    /\ \E n \in 1..MaxRaceTasks : \E chained \in SUBSET (2..n) :
         /\ taskFile = [t \in Teams |->
                IF t = "A"
                  THEN File([i \in 1..n |->
                              [id |-> i, status |-> Pending, assigned_to |-> None,
                               depends_on |-> IF i \in chained THEN {i - 1} ELSE {}]])
                  ELSE NoFile]
         /\ nextId = n + 1
    /\ taskDir = [t \in Teams |-> t = "A"]
    /\ teamDir = [t \in Teams |-> FALSE]
    /\ config = [t \in Teams |-> NoFile]
    /\ inbox = [t \in Teams |-> [a \in Agents |-> NoFile]]
    /\ pc = [p \in Procs |-> "idle"]
    /\ call = [p \in Procs |-> NoCall]
    /\ snap = [p \in Procs |-> NoSnap]
    /\ res = [p \in Procs |-> NoRes]
    /\ nextMsg = 1
    /\ acceptedBy = [i \in TaskIds |-> {}]
    /\ sentOk = [t \in Teams |-> [a \in Agents |-> {}]]
    /\ consumed = [t \in Teams |-> [a \in Agents |-> <<>>]]
    /\ teamState = TeamStateDefault

\* one step of claimant p, who calls accept_next_task for ever and
\* complete_task on every task it receives
Worker(p) ==
    \/ WorkerAcceptLoad(p, "A")
    \/ WorkerAcceptSave(p)
    \/ WorkerCompleteLoad(p)
    \/ WorkerCompleteSave(p)

\* two claimants, each scheduled again and again
NextProgress == Worker("p2") \/ Worker("p3")
SpecProgress ==
    /\ InitProgress /\ [][NextProgress]_vars
    /\ WF_vars(Worker("p2")) /\ WF_vars(Worker("p3"))

\* the TeamState under the team events, in any order; leader_thread_id 0 is
\* Option::None
NextTeamState ==
    \/ \E leader \in ThreadIds : on_team_created("A", leader)
    \/ \E id \in ThreadIds, name \in {"bob", "carol"} :
         on_member_added([name |-> name, thread_id |-> id, status |-> "Running"])
    \/ \E id \in ThreadIds, name \in {"bob", "carol"} :
         on_member_removed([name |-> name, thread_id |-> id, status |-> "Shutdown"])
    \/ \E deps \in {{}} :
         on_task_created([id |-> Len(teamState.tasks) + 1, status |-> Pending,
                          assigned_to |-> None, depends_on |-> deps])
    \/ \E id \in 1..MaxSeqTasks, status \in {InProgress, Completed} :
         on_task_updated([id |-> id, status |-> status,
                          assigned_to |-> "bob", depends_on |-> {}])
    \/ on_cleanup
SpecTeamState == Init /\ [][NextTeamState]_vars

----------------------------------------------------------------------------
(* Work queue: properties *)

Min(a, b) == IF a <= b THEN a ELSE b

\* C1: no task id is returned by accept_next_task to two different claimants,
\* whatever the interleaving of the calls' loads and saves.
NoDoubleClaim == \A i \in TaskIds : Cardinality(acceptedBy[i]) <= 1

\* C2: with N Pending tasks and M claimants that each called accept_next_task
\* once, when all calls have returned exactly min(N, M) tasks are InProgress
\* and exactly min(N, M) calls returned a task.
ClaimCount ==
    (\A p \in Procs : pc[p] # "loaded") =>
        LET q == taskFile["A"].data
            n == Len(q)
            m == Cardinality({p \in Procs : pc[p] = "done"})
            inProgress == Cardinality({i \in DOMAIN q : q[i].status = InProgress})
            returned == Cardinality({x \in TaskIds \X Agents : x[2] \in acceptedBy[x[1]]})
        IN  inProgress = Min(n, m) /\ returned = Min(n, m)

\* C3: a task returned by accept_next_task has every dependency id on a
\* Completed task of the queue the call read (so never a missing id, its own id
\* or a cycle), and the call returns no task only when the queue it read has no
\* Pending, unassigned task whose dependencies are all Completed.
DependencyGating ==
    (pc["p1"] = "done" /\ call["p1"].op = "accept_next_task") =>
        LET q == snap["p1"]
            r == res["p1"]
            DepsDone(task) ==
                \A dep \in task.depends_on :
                    \E i \in DOMAIN q : q[i].id = dep /\ q[i].status = Completed
        IN  /\ r.kind \in {"value", "notask"}
            /\ r.kind = "value" => DepsDone(r.val)
            /\ r.kind = "notask" =>
                   ~ \E i \in DOMAIN q : /\ q[i].status = Pending
                                         /\ q[i].assigned_to = None
                                         /\ DepsDone(q[i])
DependencyGatingWitness ==
    /\ pc["p1"] = "done" /\ call["p1"].op = "accept_next_task"
    /\ res["p1"].kind = "value"
    /\ res["p1"].val.depends_on = {1, 2}

\* C8: complete_task on an id of the queue returns true and leaves the task
\* Completed; on a task that is already Completed (a second call) it returns
\* true again and the queue is the one the call found.
IdempotentCompletion ==
    LET q == snap["p1"]
        id == call["p1"].id
    IN  (/\ pc["p1"] = "done" /\ call["p1"].op = "complete_task"
         /\ \E i \in DOMAIN q : q[i].id = id) =>
            /\ res["p1"] = Found(TRUE)
            /\ taskFile["A"].exists
            /\ Len(taskFile["A"].data) = Len(q)
            /\ \A i \in DOMAIN q :
                 /\ q[i].id = id => taskFile["A"].data[i].status = Completed
                 /\ q[i].id = id /\ q[i].status = Completed => taskFile["A"].data = q
IdempotentCompletionWitness ==
    /\ pc["p1"] = "done" /\ call["p1"].op = "complete_task"
    /\ res["p1"] = Found(TRUE)
    /\ \E i \in DOMAIN snap["p1"] :
         snap["p1"][i].id = call["p1"].id /\ snap["p1"][i].status = Completed

----------------------------------------------------------------------------
(* Mailboxes: properties *)

\* message m is in the log of document d (whatever its read flag)
InLog(m, d) == \E i \in DOMAIN d.data : d.data[i].content = m.content

\* the messages of S, oldest first
RECURSIVE InSendOrder(_)
InSendOrder(S) ==
    IF S = {} THEN <<>>
    ELSE LET m == CHOOSE x \in S : \A y \in S : x.content <= y.content
         IN  <<m>> \o InSendOrder(S \ {m})

\* C4: once no send_message call is in flight, the recipient's log holds every
\* message whose send returned Ok.
NoLostSend ==
    (\A p \in Procs : Idle(p)) =>
        \A a \in Agents : \A m \in sentOk["A"][a] : InLog(m, inbox["A"][a])

\* C5: the write of consume_unread drops no message whose send returned Ok from
\* the log, and leaves no message flagged read that no consume_unread returned.
ConsumeAtomic ==
    [][\A p \in Procs :
         ConsumeWrite(p) =>
            LET t == call[p].team
                a == call[p].agent
            IN  /\ \A m \in sentOk[t][a] :
                     InLog(m, inbox[t][a]) => InLog(m, inbox'[t][a])
                /\ \A i \in DOMAIN inbox'[t][a].data :
                     inbox'[t][a].data[i].read =>
                        \E j \in DOMAIN consumed'[t][a] :
                           consumed'[t][a][j].content = inbox'[t][a].data[i].content]_vars

\* C6: without interleaving, consume_unread returns exactly the messages sent
\* to the agent since its previous consume_unread, as sent and in send order;
\* so right after a consume_unread a second one returns the empty sequence.
ReadOnce ==
    (pc["p1"] = "done" /\ call["p1"].op = "consume_unread") =>
        LET a == call["p1"].agent
            c == consumed["A"][a]
        IN  /\ res["p1"].kind = "value"
            /\ LET r == res["p1"].val
                   before == {c[i] : i \in 1..(Len(c) - Len(r))}
               IN  r = InSendOrder(sentOk["A"][a] \ before)
ReadOnceWitness ==
    /\ pc["p1"] = "done" /\ call["p1"].op = "consume_unread"
    /\ res["p1"].kind = "value"
    /\ Len(res["p1"].val) = 2

\* C7: broadcast from X, with X's mailbox provisioned, returns Ok; every
\* provisioned mailbox other than X's got exactly one new message at its end
\* (sender X, the content, unread); X's mailbox got one too when exclude_self is
\* false and is unchanged when it is true; nothing else changed.
BroadcastExclusion ==
    LET c == call["p1"] IN
    (pc["p1"] = "done" /\ c.op = "broadcast" /\ c.pre[c.from].exists) =>
        /\ res["p1"] = Ok
        /\ \A a \in Agents :
             LET old == c.pre[a]
                 new == inbox["A"][a]
             IN  IF old.exists /\ ~ (c.exclude_self /\ a = c.from)
                   THEN /\ new.exists
                        /\ Len(new.data) = Len(old.data) + 1
                        /\ SubSeq(new.data, 1, Len(old.data)) = old.data
                        /\ new.data[Len(new.data)].from = c.from
                        /\ new.data[Len(new.data)].content = c.message.content
                        /\ ~ new.data[Len(new.data)].read
                   ELSE new = old
BroadcastExclusionWitness ==
    LET c == call["p1"] IN
    /\ pc["p1"] = "done" /\ c.op = "broadcast"
    /\ c.exclude_self /\ c.from = "alice"
    /\ \A a \in Agents : c.pre[a].exists
    /\ c.pre["bob"].data # <<>>
    /\ res["p1"] = Ok

----------------------------------------------------------------------------
(* Membership registry: properties *)

\* nothing of team t is on disk
TeamGone(t) ==
    /\ ~ teamDir[t]
    /\ ~ config[t].exists
    /\ \A a \in Agents : ~ inbox[t][a].exists

\* team t's directories exist and are empty
TeamDirEmpty(t) ==
    /\ teamDir[t]
    /\ ~ config[t].exists
    /\ \A a \in Agents : ~ inbox[t][a].exists

\* C9: cleanup_team leaves team_exists false and nothing of the team on disk;
\* create_team called next creates the empty directories and then succeeds,
\* leaving a config with no member and no mailbox of the earlier team.
CleanupThenCreate ==
    [][/\ CleanupTeam("p1", "A") => (~ team_exists("A"))' /\ TeamGone("A")'
       /\ (TeamGone("A") /\ CreateTeamMkdir("p1", "A")) => TeamDirEmpty("A")'
       /\ (TeamDirEmpty("A") /\ CreateTeamWrite("p1")) =>
             /\ res'["p1"] = Got(<<>>)
             /\ config'["A"] = File(<<>>)
             /\ \A a \in Agents : ~ inbox'["A"][a].exists]_vars
CleanupThenCreateWitness ==
    /\ pc["p1"] = "done" /\ call["p1"].op = "create_team"
    /\ res["p1"] = Got(<<>>)
    /\ sentOk["A"]["bob"] # {}
    /\ team_exists("A")
    /\ \A a \in Agents : ~ inbox["A"][a].exists

\* C10: create_team for a team whose config.json exists fails and leaves the
\* config, and so its member list, as it is.
CreateTeamAlreadyExists ==
    [][\A p \in Procs :
         (CreateTeamWrite(p) /\ config[call[p].team].exists) =>
            res'[p].kind = "err" /\ config' = config]_vars

----------------------------------------------------------------------------
(* Atomicity of the stores: properties *)

\* C11: the queue operations take effect one at a time, so no update is lost:
\* once every call has returned, each task whose create_task was called is in
\* the queue document exactly once, and each task that accept_next_task
\* returned is there with a status other than Pending.
QueueSerializable ==
    (\A p \in Procs : Idle(p)) =>
        LET q == taskFile["A"].data
        IN  /\ \A id \in 1..(nextId - 1) :
                 Cardinality({i \in DOMAIN q : q[i].id = id}) = 1
            /\ \A id \in TaskIds :
                 acceptedBy[id] # {} =>
                    \E i \in DOMAIN q : q[i].id = id /\ q[i].status # Pending

\* C12: no membership update is lost: once every call has returned, a member
\* whose add_member (called once for that name, and never removed) returned is
\* in the member list exactly once.
MembersSerializable ==
    (\A p \in Procs : Idle(p)) =>
        LET m == config["A"].data
            Count(name) == Cardinality({i \in DOMAIN m : m[i].name = name})
        IN  /\ pc["p1"] = "done" => Count("bob") = 1
            /\ pc["p2"] = "done" => Count("carol") = 1

\* the step that ends the call actor p is in
Finish(p) ==
    \/ InitSave(p)
    \/ CreateTaskSave(p)
    \/ SendWrite(p)
    \/ ConsumeWrite(p)

Rank(status) == CASE status = Pending -> 0 [] status = InProgress -> 1 [] OTHER -> 2

\* C14: the persisted status of a task never moves backward: no step takes a
\* task of the queue document from InProgress to Pending, or from Completed to
\* Pending or InProgress, whatever the interleaving of the queue operations.
NoRegression ==
    [][\A i \in DOMAIN taskFile["A"].data : \A j \in DOMAIN taskFile'["A"].data :
          taskFile'["A"].data[j].id = taskFile["A"].data[i].id =>
             Rank(taskFile'["A"].data[j].status) >= Rank(taskFile["A"].data[i].status)]_vars

\* C15: a read flag is never reset: consume_unread returns no message twice,
\* and no step takes a message of a log from read = true back to read = false,
\* whatever the interleaving of sends and consumes on the mailbox.
ReadFlagSticky ==
    /\ [](\A a \in Agents :
            LET c == consumed["A"][a]
            IN  \A i, j \in DOMAIN c : c[i].content = c[j].content => i = j)
    /\ [][\A a \in Agents :
            \A i \in DOMAIN inbox["A"][a].data : \A j \in DOMAIN inbox'["A"][a].data :
               (/\ inbox'["A"][a].data[j].content = inbox["A"][a].data[i].content
                /\ inbox["A"][a].data[i].read) => inbox'["A"][a].data[j].read]_vars

\* log `new` continues log `old`: the same messages in the same order, read
\* flags apart, and then any messages added at the end
Extends(old, new) ==
    /\ Len(new) >= Len(old)
    /\ \A i \in DOMAIN old : new[i].content = old[i].content /\ new[i].from = old[i].from

\* C16: a mailbox log is append-only and oldest first: no step removes or
\* reorders messages of a log, and the write of send_message puts its message
\* at the end of the log as it is at that moment (so the log, which read_inbox
\* returns as it is, lists the messages in the order the sends took effect).
AppendOnly ==
    [][/\ \A a \in Agents : Extends(inbox["A"][a].data, inbox'["A"][a].data)
       /\ \A p \in Procs :
            (SendWrite(p) /\ teamDir["A"]) =>
                inbox'["A"][call[p].to].data =
                    Append(inbox["A"][call[p].to].data, call[p].message)]_vars

\* C17: init is idempotent: on a team whose queue document exists it leaves
\* the document, and so every task with its status and assignee, as it is; it
\* writes an empty document only when there is none.
InitIdempotent ==
    [][InitSave("p1") =>
          IF taskFile["A"].exists
            THEN taskFile' = taskFile
            ELSE taskFile'["A"] = File(<<>>)]_vars

\* C18: cleanup_team of the registry succeeds, also when nothing of the team
\* exists, and leaves nothing of the team on disk: no config, no mailbox and no
\* queue document, so that a get_all_tasks called next returns no task.
CleanupRemovesAll ==
    [][/\ CleanupTeam("p1", "A") =>
             /\ res'["p1"] = Ok
             /\ TeamGone("A")'
             /\ ~ taskFile'["A"].exists
       /\ (/\ pc["p1"] = "done" /\ call["p1"].op = "cleanup_team"
           /\ GetAllTasks("p1", "A")) => res'["p1"] = Got(<<>>)]_vars

\* C19: add_member on a team that does not exist fails with NotFound and
\* changes nothing: the call ends there, and no directory, no team document
\* and no mailbox is created.
AddMemberNotFound ==
    [][\A name \in Agents :
          (AddMemberLoad("p1", "A", name) /\ ~ team_exists("A")) =>
             /\ pc'["p1"] = "done"
             /\ res'["p1"] = NotFound
             /\ UNCHANGED <<teamDir, config, inbox>>]_vars
AddMemberNotFoundWitness ==
    /\ pc["p1"] = "done" /\ call["p1"].op = "add_member"
    /\ res["p1"] = NotFound
    /\ sentOk["A"]["bob"] # {}
    /\ TeamGone("A")

\* C20: provisioning a mailbox never destroys messages: the write of
\* create_inbox and the mailbox write of add_member leave a log that exists at
\* that moment, with its messages, as it is, also when a send_message to the
\* same mailbox runs in between their test and their write.
ProvisionKeeps ==
    [][\A p \in Procs :
          /\ CreateInboxWrite(p) =>
                (inbox["A"][call[p].agent].exists => inbox' = inbox)
          /\ AddMemberInbox(p) =>
                (inbox["A"][call[p].member.name].exists => inbox' = inbox)]_vars

----------------------------------------------------------------------------
(* Errors and single operations: properties *)

\* C21: a failure at one recipient of a broadcast does not end the fan-out:
\* when the call has returned, every recipient whose log was readable has the
\* message at the end of its log, and the call reports an error if the send to
\* some recipient failed.
BroadcastContinues ==
    [][((BroadcastRead("p1") \/ BroadcastWrite("p1")) /\ pc'["p1"] = "done"
           /\ res'["p1"] # Err) =>
          LET c == call'["p1"]
              to == Recipients({a \in Agents : c.pre[a].exists}, c.from, c.exclude_self)
          IN  /\ \A a \in to :
                   ~ Malformed(c.pre[a]) =>
                      inbox'["A"][a] = File(Append(c.pre[a].data, c.message))
              /\ (\E a \in to : Malformed(c.pre[a])) => res'["p1"] = InvalidData]_vars

----------------------------------------------------------------------------
(* Work queue: single operations *)

\* C23: accept_next_task returns the first task, in the order of the queue it
\* read, that is Pending, has no assignee and has every dependency on a
\* Completed task; it returns no task only when the queue has none such.
FirstEligible ==
    (pc["p1"] = "done" /\ call["p1"].op = "accept_next_task") =>
        LET q == snap["p1"]
            r == res["p1"]
            Open(i) ==
                /\ q[i].status = Pending
                /\ q[i].assigned_to = None
                /\ \A dep \in q[i].depends_on :
                     \E k \in DOMAIN q : q[k].id = dep /\ q[k].status = Completed
        IN  /\ r.kind \in {"value", "notask"}
            /\ r.kind = "value" =>
                  \E i \in DOMAIN q : /\ q[i].id = r.val.id
                                      /\ Open(i)
                                      /\ \A j \in 1..(i - 1) : ~ Open(j)
            /\ r.kind = "notask" => \A i \in DOMAIN q : ~ Open(i)
FirstEligibleWitness ==
    /\ pc["p1"] = "done" /\ call["p1"].op = "accept_next_task"
    /\ res["p1"].kind = "value"
    /\ LET q == snap["p1"] IN
         /\ Len(q) = 2
         /\ q[1].id = res["p1"].val.id
         /\ q[2].status = Pending /\ q[2].assigned_to = None /\ q[2].depends_on = {}

\* C24: the step of accept_next_task that returns a task writes the queue it
\* read with that one task InProgress and assigned to the claimant, every other
\* task as it was, and returns the task as written; the step that returns no
\* task reports no error and leaves the document as it is.
AcceptFrame ==
    [][AcceptSave("p1") =>
         LET q == snap["p1"]
             r == res'["p1"]
             new == taskFile'["A"].data
         IN  /\ r.kind \in {"value", "notask"}
             /\ r.kind = "notask" => taskFile' = taskFile
             /\ r.kind = "value" =>
                   /\ taskFile'["A"].exists /\ Len(new) = Len(q)
                   /\ \E i \in DOMAIN q :
                        /\ q[i].id = r.val.id
                        /\ new[i] = [id |-> q[i].id, status |-> InProgress,
                                     assigned_to |-> call["p1"].who,
                                     depends_on |-> q[i].depends_on]
                        /\ r.val = new[i]
                        /\ \A j \in DOMAIN q \ {i} : new[j] = q[j]]_vars
AcceptFrameWitness ==
    /\ pc["p1"] = "done" /\ call["p1"].op = "accept_next_task"
    /\ res["p1"].kind = "value" /\ res["p1"].val.id = 2
    /\ res["p1"].val.assigned_to = "alice"
    /\ Len(snap["p1"]) = 2 /\ taskFile["A"].data[1] = snap["p1"][1]

\* C25: assign_task on an id of the queue returns true and writes the task with
\* the given assignee, whoever had it before, and with status InProgress if it
\* was Pending and its old status otherwise; on an id the queue does not have
\* it returns false and leaves the document as it is.
AssignEffect ==
    [][AssignSave("p1") =>
         LET q == snap["p1"]
             id == call["p1"].id
             new == taskFile'["A"].data
         IN  IF \E i \in DOMAIN q : q[i].id = id
               THEN /\ res'["p1"] = Found(TRUE)
                    /\ taskFile'["A"].exists /\ Len(new) = Len(q)
                    /\ \A i \in DOMAIN q :
                         q[i].id = id =>
                            /\ new[i].assigned_to = call["p1"].who
                            /\ q[i].status = Pending => new[i].status = InProgress
                            /\ q[i].status \in {InProgress, Completed} =>
                                  new[i].status = q[i].status
               ELSE res'["p1"] = Found(FALSE) /\ taskFile' = taskFile]_vars
AssignEffectWitness ==
    /\ pc["p1"] = "done" /\ call["p1"].op = "assign_task"
    /\ res["p1"] = Found(TRUE)
    /\ \E i \in DOMAIN snap["p1"] :
         /\ snap["p1"][i].id = call["p1"].id
         /\ snap["p1"][i].status = Completed
         /\ snap["p1"][i].assigned_to = "alice"
         /\ taskFile["A"].data[i].assigned_to = "carol"

\* C26: complete_task on an id of the queue returns true and writes the queue
\* it read with that task Completed, whatever its status was, its other fields
\* and every other task as they were; on an id the queue does not have it
\* returns false and leaves the document as it is.
CompleteFrame ==
    [][CompleteSave("p1") =>
         LET q == snap["p1"]
             id == call["p1"].id
             new == taskFile'["A"].data
         IN  IF \E i \in DOMAIN q : q[i].id = id
               THEN /\ res'["p1"] = Found(TRUE)
                    /\ taskFile'["A"].exists /\ Len(new) = Len(q)
                    /\ \A i \in DOMAIN q :
                         IF q[i].id = id
                           THEN new[i] = [id |-> q[i].id, status |-> Completed,
                                          assigned_to |-> q[i].assigned_to,
                                          depends_on |-> q[i].depends_on]
                           ELSE new[i] = q[i]
               ELSE res'["p1"] = Found(FALSE) /\ taskFile' = taskFile]_vars
CompleteFrameWitness ==
    /\ pc["p1"] = "done" /\ call["p1"].op = "complete_task"
    /\ res["p1"] = Found(TRUE)
    /\ LET q == snap["p1"] IN
         /\ Len(q) = 2 /\ q[2].id = call["p1"].id
         /\ q[2].status = Pending /\ q[2].assigned_to = "bob"
         /\ q[1].status = InProgress
         /\ taskFile["A"].data[1].status = InProgress

----------------------------------------------------------------------------
(* Membership registry: single operations *)

\* C27: remove_member on an existing team writes the member list it read
\* without the members of that name, all of them, and with the other members
\* in the order they had; it returns Ok, also when no member has the name and
\* the list stays as it is.
RemoveAllOccurrences ==
    [][RemoveMemberSave("p1") =>
         LET q == snap["p1"]
             name == call["p1"].name
             new == config'["A"].data
             keep == {i \in DOMAIN q : q[i].name # name}
             Nth(k) == CHOOSE i \in keep : Cardinality({j \in keep : j <= i}) = k
         IN  /\ res'["p1"] = Ok
             /\ config'["A"].exists
             /\ \A k \in DOMAIN new : new[k].name # name
             /\ Len(new) = Cardinality(keep)
             /\ \A k \in DOMAIN new : new[k] = q[Nth(k)]
             /\ keep = DOMAIN q => new = q]_vars
RemoveAllOccurrencesWitness ==
    /\ pc["p1"] = "done" /\ call["p1"].op = "remove_member"
    /\ res["p1"] = Ok
    /\ Len(snap["p1"]) = 2
    /\ \A i \in DOMAIN snap["p1"] : snap["p1"][i].name = call["p1"].name
    /\ config["A"] = File(<<>>)

\* C28 as stated: update_member_status on an existing team leaves the member
\* list as it is when no member has the name; otherwise every member of that
\* name has the given status afterwards, and the members of other names are
\* as they were.
UpdateStatusEvery ==
    [][UpdateStatusSave("p1") =>
         LET q == snap["p1"]
             name == call["p1"].name
             new == config'["A"].data
         IN  /\ config'["A"].exists /\ Len(new) = Len(q)
             /\ \A i \in DOMAIN q :
                  IF q[i].name = name
                    THEN new[i] = [name |-> name, status |-> call["p1"].status]
                    ELSE new[i] = q[i]]_vars

\* C28 amended: when no member has the name the list is as it was; otherwise
\* the first member of that name, in list order, has the given status
\* afterwards, and every other member, a later one of the same name included,
\* is as it was.
UpdateStatusFirst ==
    [][UpdateStatusSave("p1") =>
         LET q == snap["p1"]
             name == call["p1"].name
             new == config'["A"].data
         IN  /\ res'["p1"] = Ok
             /\ config'["A"].exists /\ Len(new) = Len(q)
             /\ \A i \in DOMAIN q :
                  IF q[i].name = name /\ \A j \in 1..(i - 1) : q[j].name # name
                    THEN new[i] = [name |-> name, status |-> call["p1"].status]
                    ELSE new[i] = q[i]]_vars
UpdateStatusFirstWitness ==
    /\ pc["p1"] = "done" /\ call["p1"].op = "update_member_status"
    /\ res["p1"] = Ok
    /\ snap["p1"] = <<Member("bob"), Member("bob")>>
    /\ call["p1"].name = "bob"
    /\ config["A"].data[1].status = "idle"
    /\ config["A"].data[2].status = "running"

----------------------------------------------------------------------------
(* Mailboxes: single operations *)

\* C29: an agent without a log has an empty log: read_inbox and consume_unread
\* return the empty sequence, not an error, and create no file; send_message,
\* in an inboxes directory that exists, returns Ok and leaves the agent a log
\* of exactly the message sent, unread.
MissingLogIsEmpty ==
    [][/\ \A a \in Agents :
            ((ReadInboxCall("p1", "A", a) \/ ConsumeRead("p1", "A", a))
                /\ ~ inbox["A"][a].exists) =>
               /\ inbox' = inbox
               /\ pc'["p1"] = "done" => res'["p1"] = Got(<<>>)
       /\ (ConsumeWrite("p1") /\ ~ inbox["A"][call["p1"].agent].exists) =>
               res'["p1"] = Got(<<>>) /\ inbox' = inbox
       /\ (SendWrite("p1") /\ ~ inbox["A"][call["p1"].to].exists /\ teamDir["A"]) =>
               LET m == call["p1"].message IN
               /\ res'["p1"] = Ok
               /\ inbox' = [inbox EXCEPT !["A"][call["p1"].to] =
                              File(<<[from |-> m.from, timestamp |-> m.timestamp,
                                      content |-> m.content, read |-> FALSE]>>)]]_vars
MissingLogIsEmptyWitness ==
    /\ pc["p1"] = "done" /\ call["p1"].op = "consume_unread"
    /\ call["p1"].agent = "carol"
    /\ res["p1"] = Got(<<>>)
    /\ teamDir["A"] /\ ~ inbox["A"]["carol"].exists
    /\ ~ inbox["A"]["alice"].exists
    /\ Len(inbox["A"]["bob"].data) = 1 /\ sentOk["A"]["bob"] # {}

\* C30: consume_unread returns the messages of the log it read whose read flag
\* is false, all of them and in log order; afterwards the log has the same
\* messages with sender, timestamp and content as they were, every one
\* flagged read.
ConsumeExactlyUnread ==
    [][ConsumeWrite("p1") =>
         LET q == snap["p1"]
             r == res'["p1"]
             new == inbox'["A"][call["p1"].agent].data
             fresh == {i \in DOMAIN q : ~ q[i].read}
             Nth(k) == CHOOSE i \in fresh : Cardinality({j \in fresh : j <= i}) = k
         IN  /\ r.kind = "value"
             /\ Len(r.val) = Cardinality(fresh)
             /\ \A k \in DOMAIN r.val : r.val[k] = q[Nth(k)]
             /\ Len(new) = Len(q)
             /\ \A i \in DOMAIN q :
                  new[i] = [from |-> q[i].from, timestamp |-> q[i].timestamp,
                            content |-> q[i].content, read |-> TRUE]]_vars
ConsumeExactlyUnreadWitness ==
    /\ pc["p1"] = "done" /\ call["p1"].op = "consume_unread"
    /\ LET q == snap["p1"] IN
         /\ Len(q) = 2 /\ q[1].read /\ ~ q[2].read
         /\ res["p1"] = Got(<<q[2]>>)
         /\ inbox["A"][call["p1"].agent].data[1] = q[1]
         /\ inbox["A"][call["p1"].agent].data[2].read

----------------------------------------------------------------------------
(* Work queue and facade: order, gating and progress *)

\* C31: the task sequence only grows at the end: the write of create_task
\* leaves the document as it is at that moment with the new task added after
\* its last one, and the writes of accept_next_task, assign_task and
\* complete_task leave a document of the same tasks, by id, in the same order
\* (so the document, which get_all_tasks returns as it is, lists the tasks in
\* the order their create_task calls took effect).
CreationOrder ==
    [][\A p \in Procs :
         LET old == taskFile["A"].data
             new == taskFile'["A"].data
         IN  /\ (CreateTaskSave(p) /\ taskDir["A"]) =>
                   /\ Len(new) = Len(old) + 1
                   /\ \A i \in DOMAIN old : new[i].id = old[i].id
                   /\ new[Len(new)].id = call[p].task.id
             /\ (AcceptSave(p) \/ AssignSave(p) \/ CompleteSave(p)) =>
                   /\ Len(new) = Len(old)
                   /\ \A i \in DOMAIN old : new[i].id = old[i].id]_vars

\* C32: consume_as_tags returns nothing exactly when the log it read has no
\* unread message, and otherwise one block per unread message, with its sender
\* and content, in log order; the mailbox is left as consume_unread leaves it:
\* untouched when nothing was unread, else the same messages all flagged read,
\* so that the log has no unread message afterwards.
TagsOverConsume ==
    [][ConsumeTagsWrite("p1") =>
         LET q == snap["p1"]
             a == call["p1"].agent
             r == res'["p1"]
             new == inbox'["A"][a].data
             fresh == {i \in DOMAIN q : ~ q[i].read}
             Nth(k) == CHOOSE i \in fresh : Cardinality({j \in fresh : j <= i}) = k
         IN  /\ r.kind \in {"notags", "value"}
             /\ r.kind = "notags" <=> fresh = {}
             /\ r.kind = "value" =>
                   /\ Len(r.val) = Cardinality(fresh)
                   /\ \A k \in DOMAIN r.val :
                        /\ r.val[k].from = q[Nth(k)].from
                        /\ r.val[k].content = q[Nth(k)].content
             /\ fresh = {} => inbox' = inbox
             /\ Len(new) = Len(q)
             /\ \A i \in DOMAIN q :
                  new[i] = [from |-> q[i].from, timestamp |-> q[i].timestamp,
                            content |-> q[i].content, read |-> TRUE]]_vars
TagsOverConsumeWitness ==
    /\ pc["p1"] = "done" /\ call["p1"].op = "consume_as_tags"
    /\ res["p1"].kind = "value" /\ Len(res["p1"].val) = 2
    /\ res["p1"].val[1].content < res["p1"].val[2].content
    /\ \A i \in DOMAIN inbox["A"][call["p1"].agent].data :
         inbox["A"][call["p1"].agent].data[i].read

\* C33: when handle_assign_task has created its task, every task the queue had
\* when the call began is still in the queue, at its place and with its status
\* and assignee, and the new task is the last one.
FacadeKeepsTasks ==
    [][((HandleAssignCreate("p1") \/ HandleAssignSave("p1"))
           /\ pc'["p1"] = "done" /\ res'["p1"] = Ok) =>
         LET pre == call["p1"].pre
             new == taskFile'["A"].data
         IN  /\ Len(new) = Len(pre) + 1
             /\ \A i \in DOMAIN pre :
                  /\ new[i].id = pre[i].id
                  /\ new[i].status = pre[i].status
                  /\ new[i].assigned_to = pre[i].assigned_to
             /\ new[Len(new)].id = call["p1"].task.id]_vars

\* C34: a task created with an assignee is never returned by accept_next_task,
\* whoever calls it and also between the create_task and the assign_task of
\* the facade; and a write of accept_next_task or create_task leaves every
\* Pending task that has an assignee as the call read it, so that only
\* assign_task and complete_task take such a task out of Pending.
PreAssignedNotClaimed ==
    [][\A p \in Procs :
         /\ AcceptSave(p) =>
               \A i \in DOMAIN snap[p] :
                  acceptedBy'[snap[p][i].id] # acceptedBy[snap[p][i].id] =>
                     snap[p][i].assigned_to # "alice"
         /\ ((AcceptSave(p) \/ CreateTaskSave(p) \/ HandleAssignCreate(p))
                /\ taskFile' # taskFile) =>
               \A i \in DOMAIN snap[p] :
                  (snap[p][i].assigned_to # None /\ snap[p][i].status = Pending) =>
                     taskFile'["A"].data[i] = snap[p][i]]_vars
PreAssignedNotClaimedWitness ==
    /\ pc["p2"] = "h_assign" /\ call["p2"].task.id = 1
    /\ acceptedBy[1] = {} /\ acceptedBy[2] = {"carol"}
    /\ Len(taskFile["A"].data) = 2
    /\ taskFile["A"].data[1] = [id |-> 1, status |-> Pending,
                                assigned_to |-> "alice", depends_on |-> {}]
    /\ taskFile["A"].data[2].assigned_to = "carol"

\* C35: only accept_next_task looks at dependencies: assign_task takes a
\* Pending task to InProgress and complete_task takes a task to Completed also
\* when a dependency of the task is not Completed in the queue the call read,
\* while a task accept_next_task returns has every dependency Completed.
GatingInAcceptOnly ==
    [][LET q == snap["p1"]
           new == taskFile'["A"].data
           Blocked(i) ==
               \E dep \in q[i].depends_on :
                  ~ \E k \in DOMAIN q : q[k].id = dep /\ q[k].status = Completed
       IN  /\ AssignSave("p1") =>
                 \A i \in DOMAIN q :
                    (q[i].id = call["p1"].id /\ q[i].status = Pending /\ Blocked(i)) =>
                        res'["p1"] = Found(TRUE) /\ new[i].status = InProgress
           /\ CompleteSave("p1") =>
                 \A i \in DOMAIN q :
                    (q[i].id = call["p1"].id /\ Blocked(i)) =>
                        res'["p1"] = Found(TRUE) /\ new[i].status = Completed
           /\ AcceptSave("p1") =>
                 \A i \in DOMAIN q :
                    (res'["p1"].kind = "value" /\ res'["p1"].val.id = q[i].id) =>
                        ~ Blocked(i)]_vars
GatingInAcceptOnlyWitness ==
    /\ pc["p1"] = "done" /\ call["p1"].op = "complete_task" /\ call["p1"].id = 2
    /\ res["p1"] = Found(TRUE)
    /\ taskFile["A"].data =
          <<[id |-> 1, status |-> InProgress, assigned_to |-> "carol", depends_on |-> {1}],
            [id |-> 2, status |-> Completed, assigned_to |-> None, depends_on |-> {1}]>>

\* C36: from a queue of Pending, unassigned tasks whose dependencies exist and
\* form no cycle, with claimants that keep calling accept_next_task and call
\* complete_task on every task they receive, each scheduled again and again,
\* every task is eventually Completed and stays Completed.
QueueProgress ==
    <>[](\A i \in DOMAIN taskFile["A"].data : taskFile["A"].data[i].status = Completed)

----------------------------------------------------------------------------
(* TUI: properties *)

\* C37: the members of the TeamState never hold two entries with one thread
\* id; on_member_added for a thread id that has an entry puts the event's
\* member at the place of that entry and leaves the other entries alone; and
\* on_cleanup leaves the state TeamState::default() is: no team name, no
\* leader, no members, no tasks, is_active false.
TeamStateUnique ==
    /\ [](\A i, j \in DOMAIN teamState.members :
            teamState.members[i].thread_id = teamState.members[j].thread_id => i = j)
    /\ [][\A id \in ThreadIds, name \in {"bob", "carol"} :
            LET m == [name |-> name, thread_id |-> id, status |-> "Running"]
                old == teamState.members
                new == teamState'.members
            IN  (on_member_added(m) /\ \E i \in DOMAIN old : old[i].thread_id = id) =>
                   /\ Len(new) = Len(old)
                   /\ \A i \in DOMAIN old :
                        new[i] = IF old[i].thread_id = id THEN m ELSE old[i]]_vars
    /\ [][on_cleanup =>
            /\ teamState'.team_name = None /\ teamState'.leader_thread_id = 0
            /\ teamState'.members = <<>> /\ teamState'.tasks = <<>>
            /\ ~ is_active']_vars
TeamStateUniqueWitness ==
    /\ pc["p1"] = "done" /\ call["p1"].op = "on_member_added"
    /\ Len(teamState.members) = 2
    /\ teamState.members[1] = call["p1"].member
    /\ call["p1"].member.name = "carol"
    /\ teamState.members[2].name = "carol"
    /\ teamState.tasks # <<>> /\ is_active

====
